---- MODULE Spec2Model ----
(***************************************************************************)
(* The playlist category rule engine (src/playlist_categorizer.py) and the *)
(* web server that drives it (src/web_server.py, src/app.py).              *)
(*                                                                         *)
(* Python strings are TLA+ strings, read one character at a time with      *)
(* Head, Tail, SubSeq and Len.  A float k/20 is represented by the integer *)
(* k ("twentieths"): every confidence the engine produces is a score       *)
(* divided by 20.0, and the two floats it is compared with are 0.3 = 6/20  *)
(* and 1.0 = 20/20.                                                        *)
(***************************************************************************)
EXTENDS Integers, Sequences, FiniteSets, TLC

(***************************************************************************)
(* PlaylistCategory: the enum's members, in definition order, and the      *)
(* value of each member.                                                   *)
(***************************************************************************)
PlaylistCategory ==
  << "FOOD", "CAREER", "INVESTMENT", "EDUCATION", "ENTERTAINMENT",
     "HEALTH_FITNESS", "TECHNOLOGY", "TRAVEL", "LIFESTYLE", "OTHER" >>

Members == { PlaylistCategory[i] : i \in 1..Len(PlaylistCategory) }

value ==
  [ m \in Members |->
      CASE m = "FOOD" -> "Food"
        [] m = "CAREER" -> "Career"
        [] m = "INVESTMENT" -> "Investment"
        [] m = "EDUCATION" -> "Education"
        [] m = "ENTERTAINMENT" -> "Entertainment"
        [] m = "HEALTH_FITNESS" -> "Health & Fitness"
        [] m = "TECHNOLOGY" -> "Technology"
        [] m = "TRAVEL" -> "Travel"
        [] m = "LIFESTYLE" -> "Lifestyle"
        [] m = "OTHER" -> "Other" ]

Values == { value[m] : m \in Members }

\* PlaylistCategory(v): the member whose value is v; ValueError when none.
ValueError == "ValueError"

\* PlaylistCategoryOf that also takes a member's name, as
\* PlaylistCategory[v] does.
PlaylistCategoryOfName(v) ==
  IF v \in Members THEN v
  ELSE IF \E m \in Members : value[m] = v
    THEN CHOOSE m \in Members : value[m] = v
    ELSE ValueError

PlaylistCategoryOf(v) ==
  IF \E m \in Members : value[m] = v
    THEN CHOOSE m \in Members : value[m] = v
    ELSE ValueError

(***************************************************************************)
(* str.lower() and the regular expression \b<literal>\b.                   *)
(***************************************************************************)
LowerOf ==
  [ c \in { "A", "B", "C", "D", "E", "F", "G", "H", "I", "J", "K", "L", "M",
            "N", "O", "P", "Q", "R", "S", "T", "U", "V", "W", "X", "Y", "Z" } |->
      CASE c = "A" -> "a" [] c = "B" -> "b" [] c = "C" -> "c" [] c = "D" -> "d"
        [] c = "E" -> "e" [] c = "F" -> "f" [] c = "G" -> "g" [] c = "H" -> "h"
        [] c = "I" -> "i" [] c = "J" -> "j" [] c = "K" -> "k" [] c = "L" -> "l"
        [] c = "M" -> "m" [] c = "N" -> "n" [] c = "O" -> "o" [] c = "P" -> "p"
        [] c = "Q" -> "q" [] c = "R" -> "r" [] c = "S" -> "s" [] c = "T" -> "t"
        [] c = "U" -> "u" [] c = "V" -> "v" [] c = "W" -> "w" [] c = "X" -> "x"
        [] c = "Y" -> "y" [] c = "Z" -> "z" ]

RECURSIVE lower(_)
lower(s) ==
  IF s = "" THEN ""
  ELSE (IF Head(s) \in DOMAIN LowerOf THEN LowerOf[Head(s)] ELSE Head(s))
         \o lower(Tail(s))

\* The characters \w matches.
WordChars ==
  { "a", "b", "c", "d", "e", "f", "g", "h", "i", "j", "k", "l", "m",
    "n", "o", "p", "q", "r", "s", "t", "u", "v", "w", "x", "y", "z",
    "A", "B", "C", "D", "E", "F", "G", "H", "I", "J", "K", "L", "M",
    "N", "O", "P", "Q", "R", "S", "T", "U", "V", "W", "X", "Y", "Z",
    "0", "1", "2", "3", "4", "5", "6", "7", "8", "9", "_" }

\* Whether the character at position i of text is a word character; the
\* positions before the first and after the last character are not.
IsWordAt(text, i) ==
  i >= 1 /\ i <= Len(text) /\ SubSeq(text, i, i) \in WordChars

\* \b left out of the pattern: the literal matches inside longer words.
WordBoundaryAnywhere(text, i) == TRUE

\* \b at the position just before character i.
WordBoundary(text, i) == IsWordAt(text, i - 1) # IsWordAt(text, i)

\* MatchAt for \b<pattern> : nothing is asked of what follows the match.
MatchAt_Prefix(pattern, text, i) ==
  /\ i + Len(pattern) - 1 <= Len(text)
  /\ SubSeq(text, i, i + Len(pattern) - 1) = pattern
  /\ IsWordAt(text, i - 1) # IsWordAt(text, i)

\* \b<pattern>\b matches with its first character at position i.
MatchAt(pattern, text, i) ==
  /\ i + Len(pattern) - 1 <= Len(text)
  /\ SubSeq(text, i, i + Len(pattern) - 1) = pattern
  /\ WordBoundary(text, i)
  /\ WordBoundary(text, i + Len(pattern))

\* len(re.findall(...)): the matches found scanning from position i, left
\* to right and without overlap; an empty match moves the scan one on.
RECURSIVE findall(_, _, _)
findall(pattern, text, i) ==
  IF i > Len(text) + 1 THEN 0
  ELSE IF MatchAt(pattern, text, i)
    THEN 1 + findall(pattern, text, IF pattern = "" THEN i + 1 ELSE i + Len(pattern))
    ELSE findall(pattern, text, i + 1)

(***************************************************************************)
(* PlaylistCategorizer._initialize_rules: the built-in rules.              *)
(***************************************************************************)
initialize_rules ==
  <<
    [keywords |-> <<
      "pizza", "recipe", "recipes", "cooking", "food", "bake", "baked", "brownies",
      "cookies", "bread", "fruit", "vegetable", "veg", "masala", "falafel", "hummus",
      "spreads", "carrot", "quinoa", "cauliflower", "mushroom", "tomato", "pumpkin",
      "laddu", "chutney", "amla", "drumsticks", "kofta", "noodles", "parwal", "methi",
      "soyabean", "curry", "kanji", "poha", "achar", "sabji", "pulao", "chaat", "snacks",
      "millet", "singhada", "lotus", "vermicelli", "dry fruits", "rice", "sprouts",
      "thecha", "satvik", "air fry", "indian", "chinese" >>,
     category |-> "FOOD", weight |-> 10],
    [keywords |-> <<
      "career", "product management", "professional", "business", "work", "job",
      "interview", "resume", "skills", "development", "leadership", "management" >>,
     category |-> "CAREER", weight |-> 8],
    [keywords |-> <<
      "investment", "investing", "stock", "trading", "finance", "money", "wealth",
      "portfolio", "mutual fund", "crypto", "bitcoin", "market", "shares" >>,
     category |-> "INVESTMENT", weight |-> 8],
    [keywords |-> <<
      "exercise", "workout", "fitness", "health", "yoga", "gym", "training",
      "weight loss", "diet", "nutrition", "meditation", "wellness" >>,
     category |-> "HEALTH_FITNESS", weight |-> 7],
    [keywords |-> <<
      "learn", "tutorial", "course", "education", "study", "academic", "lesson",
      "programming", "coding", "math", "science", "history", "language" >>,
     category |-> "EDUCATION", weight |-> 6],
    [keywords |-> <<
      "tech", "technology", "software", "app", "programming", "coding", "computer", "ai",
      "machine learning", "data science", "web development", "mobile" >>,
     category |-> "TECHNOLOGY", weight |-> 6],
    [keywords |-> <<
      "travel", "trip", "vacation", "tourism", "destination", "hotel", "flight",
      "adventure", "explore", "journey", "wanderlust" >>,
     category |-> "TRAVEL", weight |-> 5],
    [keywords |-> <<
      "movie", "music", "song", "comedy", "entertainment", "gaming", "show", "series",
      "drama", "funny", "dance", "performance" >>,
     category |-> "ENTERTAINMENT", weight |-> 5],
    [keywords |-> <<
      "lifestyle", "fashion", "beauty", "style", "hairstyles", "home", "decor",
      "personal", "daily", "routine", "tips", "life hacks" >>,
     category |-> "LIFESTYLE", weight |-> 4]
  >>


\* rules with the Food rule at weight 5.
rules_FoodFive == [initialize_rules EXCEPT ![1].weight = 5]

\* PlaylistCategorizer.__init__: self.rules; self.custom_rules starts empty
\* and is the variable custom_rules below.
rules == initialize_rules

(***************************************************************************)
(* The inputs of the model: the playlists the operations are given, the    *)
(* titles and descriptions categorize_playlist is called with, and the     *)
(* arguments add_custom_rule is called with.                               *)
(***************************************************************************)
\* The playlists of the account, as YouTubePlaylistManager.get_playlists
\* builds them (the fields the engine does not read are left out).
Account ==
  << [id |-> "PL1", title |-> "Pizza",
      description |-> "Delicious pizza recipes", video_count |-> 1],
     [id |-> "PL4", title |-> "Random stuff",
      description |-> "Various videos", video_count |-> 2],
     [id |-> "PL42", title |-> "Daily PL42", description |-> "", video_count |-> 3] >>

\* Records a caller of the engine may pass: the account's, records that
\* lack the description, the title or the video count (one of them with a
\* title that repeats a word), and a record that was categorized before
\* ("List of categorized playlists", lines 217 and 242), under a store that
\* made it Food with confidence 0.5.
Range(seq) == { seq[i] : i \in 1..Len(seq) }

Catalog ==
  Range(Account) \cup
  { [id |-> "PL3", title |-> "Coding", video_count |-> 6],
    [id |-> "PL5", description |-> "Workout"],
    [id |-> "PL6", title |-> "Bye bye bye"],
    [id |-> "PL4", title |-> "Random stuff", description |-> "Various videos",
     video_count |-> 2, category |-> "Food", category_confidence |-> 10] }

\* dict.get(key, default)
Get(playlist, key, default) ==
  IF key \in DOMAIN playlist THEN playlist[key] ELSE default

Titles == { Get(p, "title", "") : p \in Catalog }

Descriptions == { Get(p, "description", "") : p \in Catalog }

\* The keyword lists, categories and weights add_custom_rule is called with.
KeywordLists == { << "Stuff", "videos" >>, << "pizza" >>, << "bye bye" >> }

RuleCategories == { "FOOD", "OTHER" }

DEFAULT_WEIGHT == 5

Weights == { -5, DEFAULT_WEIGHT }

\* The playlist ids and the request bodies POST /api/playlist/<id>/category
\* is called with: None for a JSON object, no category, an empty category, values
\* of the enum, and strings that are no value of it (a member's name, a
\* value in lower case).
PlaylistIds == { "PL4", "PL42" }

\* None where a string may stand, and None where an object (a dict, a
\* YouTubeManager) may stand.
None == "None"

NoneObject == [none |-> TRUE]

Bodies ==
  { NoneObject, [other |-> "x"], [category |-> ""], [category |-> "Travel"],
    [category |-> "Other"], [category |-> "TRAVEL"], [category |-> "food"] }

\* How many custom rules the model lets the store grow to, and how many
\* records a batch holds at most.
MaxCustom == 2

MaxBatch == 2

\* How many times in a row the same categorize_playlist call is made.
MaxRepeat == 2

(***************************************************************************)
(* PlaylistCategorizer.categorize_playlist.                                *)
(***************************************************************************)
\* f"{title} {description}".lower()
Text(title, description) == lower(title \o " " \o description)

\* The texts, keywords and rules of the model's inputs.  The three tables
\* below hold, for these, exactly what the operators next to them compute;
\* the operators read the table and compute only what it does not hold.
Texts == { Text(t, d) : t \in Titles, d \in Descriptions }

Keywords ==
  UNION { Range(rules[r].keywords) : r \in 1..Len(rules) } \cup
  UNION { Range(kws) : kws \in KeywordLists } \cup PlaylistIds

\* len(re.findall(rf'\b{re.escape(keyword.lower())}\b', text))
FindallOf == [ keyword \in Keywords, text \in Texts |-> findall(lower(keyword), text, 1) ]

keyword_count(keyword, text) ==
  IF << keyword, text >> \in DOMAIN FindallOf THEN FindallOf[keyword, text]
  ELSE findall(lower(keyword), text, 1)

\* score += keyword_count * rule.weight, over the keywords from the k-th on.
RECURSIVE rule_score(_, _, _)
rule_score(rule, text, k) ==
  IF k > Len(rule.keywords) THEN 0
  ELSE keyword_count(rule.keywords[k], text) * rule.weight
         + rule_score(rule, text, k + 1)

\* category_scores is a dict: a sequence of <<category, score>> items in
\* insertion order, at most one item per category.
HasKey(category_scores, category) ==
  \E i \in 1..Len(category_scores) : category_scores[i][1] = category

\* AddScore with "category_scores[rule.category] = score".
AddScore_Replace(category_scores, category, score) ==
  IF HasKey(category_scores, category)
    THEN [ i \in 1..Len(category_scores) |->
             IF category_scores[i][1] = category
               THEN << category, score >>
               ELSE category_scores[i] ]
    ELSE Append(category_scores, << category, 0 + score >>)

AddScore(category_scores, category, score) ==
  IF HasKey(category_scores, category)
    THEN [ i \in 1..Len(category_scores) |->
             IF category_scores[i][1] = category
               THEN << category, category_scores[i][2] + score >>
               ELSE category_scores[i] ]
    ELSE Append(category_scores, << category, 0 + score >>)

\* ScoreRule with "if score >= 0".
ScoreRuleKeepsZero(category_scores, rule, text) ==
  LET score == rule_score(rule, text, 1)
  IN  IF score >= 0 THEN AddScore(category_scores, rule.category, score)
      ELSE category_scores

\* One pass of the loop over all_rules.
ScoreRule(category_scores, rule, text) ==
  LET score == rule_score(rule, text, 1)
  IN  IF score > 0 THEN AddScore(category_scores, rule.category, score)
      ELSE category_scores

\* The passes for the rules from the k-th on.
RECURSIVE ScoreRules(_, _, _, _)
ScoreRules(category_scores, all_rules, text, k) ==
  IF k > Len(all_rules) THEN category_scores
  ELSE ScoreRules(ScoreRule(category_scores, all_rules[k], text),
                  all_rules, text, k + 1)

\* category_scores after the passes for self.rules, which all_rules
\* starts with.
BuiltinScoresOf == [ text \in Texts |-> ScoreRules(<< >>, rules, text, 1) ]

BuiltinScores(text) ==
  IF text \in DOMAIN BuiltinScoresOf THEN BuiltinScoresOf[text]
  ELSE ScoreRules(<< >>, rules, text, 1)

\* CategoryScores with all_rules built when the rule before the last one
\* was added: the rule added last is not in it.
CategoryScores_BeforeAdd(custom_rules, text) ==
  ScoreRules(BuiltinScores(text),
             SubSeq(custom_rules, 1, Len(custom_rules) - 1), text, 1)

\* category_scores when the loop over self.rules + self.custom_rules ends.
CategoryScores(custom_rules, text) ==
  ScoreRules(BuiltinScores(text), custom_rules, text, 1)

\* MaxItem taking the last of the largest items.
MaxItemLast(items) ==
  LET i == CHOOSE i \in 1..Len(items) :
             /\ \A j \in 1..Len(items) : items[j][2] <= items[i][2]
             /\ \A j \in (i + 1)..Len(items) : items[j][2] < items[i][2]
  IN  items[i]

\* max(category_scores.items(), key=lambda x: x[1]): the first item, in
\* insertion order, that no item exceeds.
MaxItem(items) ==
  LET i == CHOOSE i \in 1..Len(items) :
             /\ \A j \in 1..Len(items) : items[j][2] <= items[i][2]
             /\ \A j \in 1..(i - 1) : items[j][2] < items[i][2]
  IN  items[i]

\* Confidence without min(..., 1.0), and Confidence dividing by 10.0.
ConfidenceUnclamped(best) == best

ConfidenceByTen(best) == IF 20 < 2 * best THEN 20 ELSE 2 * best

\* min(best / 20.0, 1.0), in twentieths: best / 20.0 is best twentieths,
\* and 1.0 is 20.
Confidence(best) == IF 20 < best THEN 20 ELSE best

\* The (category, confidence) returned for category_scores.
BestCategory(category_scores) ==
  IF category_scores = << >> THEN << "OTHER", 0 >>
  ELSE LET best_category == MaxItem(category_scores)
       IN  << best_category[1], Confidence(best_category[2]) >>

categorize_playlist(custom_rules, title, description) ==
  BestCategory(CategoryScores(custom_rules, Text(title, description)))

(***************************************************************************)
(* categorize_playlists, get_category_summary and                          *)
(* suggest_category_improvements.                                          *)
(***************************************************************************)
\* Enhanced with enhanced_playlist.setdefault(...): a field the record
\* already has is kept.
Enhanced_SetDefault(playlist, category, confidence) ==
  [ key \in DOMAIN playlist \cup { "category", "category_confidence" } |->
      IF key \in DOMAIN playlist THEN playlist[key]
      ELSE IF key = "category" THEN value[category] ELSE confidence ]

\* Enhanced that also writes the category at the end of the description.
Enhanced_Tagging(playlist, category, confidence) ==
  [ key \in DOMAIN playlist \cup { "category", "category_confidence" } |->
      CASE key = "category" -> value[category]
        [] key = "category_confidence" -> confidence
        [] key = "description" -> playlist[key] \o " " \o value[category]
        [] OTHER -> playlist[key] ]

\* playlist.copy() with 'category' and 'category_confidence' set.
Enhanced(playlist, category, confidence) ==
  [ key \in DOMAIN playlist \cup { "category", "category_confidence" } |->
      CASE key = "category" -> value[category]
        [] key = "category_confidence" -> confidence
        [] OTHER -> playlist[key] ]

\* categorize_playlists with categorized_playlists.insert(0, ...).
categorize_playlists_Reversed(custom_rules, playlists) ==
  [ i \in 1..Len(playlists) |->
      LET playlist == playlists[Len(playlists) + 1 - i]
          title == Get(playlist, "title", "")
          description == Get(playlist, "description", "")
          result == categorize_playlist(custom_rules, title, description)
      IN  Enhanced(playlist, result[1], result[2]) ]

categorize_playlists(custom_rules, playlists) ==
  [ i \in 1..Len(playlists) |->
      LET title == Get(playlists[i], "title", "")
          description == Get(playlists[i], "description", "")
          result == categorize_playlist(custom_rules, title, description)
      IN  Enhanced(playlists[i], result[1], result[2]) ]

\* SumVideos with sum(..., 1): the sum starts at 1.
RECURSIVE SumVideos_StartOne(_)
SumVideos_StartOne(category_playlists) ==
  IF category_playlists = << >> THEN 1
  ELSE Get(Head(category_playlists), "video_count", 0)
         + SumVideos_StartOne(Tail(category_playlists))

\* sum(p.get('video_count', 0) for p in category_playlists)
RECURSIVE SumVideos(_)
SumVideos(category_playlists) ==
  IF category_playlists = << >> THEN 0
  ELSE Get(Head(category_playlists), "video_count", 0)
         + SumVideos(Tail(category_playlists))

\* get_category_summary adding up the videos of the whole batch.
get_category_summary_AllVideos(custom_rules, playlists) ==
  LET categorized == categorize_playlists(custom_rules, playlists)
  IN  [ v \in Values |->
          LET InCategory(p) == p["category"] = v
              category_playlists == SelectSeq(categorized, InCategory)
          IN  [ playlist_count |-> Len(category_playlists),
                total_videos |-> SumVideos(categorized),
                playlists |-> category_playlists ] ]

\* get_category_summary with "if category_playlists:" before the entry is
\* stored.
get_category_summary_NonEmpty(custom_rules, playlists) ==
  LET categorized == categorize_playlists(custom_rules, playlists)
      Used == { categorized[i]["category"] : i \in 1..Len(categorized) }
  IN  [ v \in Used |->
          LET InCategory(p) == p["category"] = v
              category_playlists == SelectSeq(categorized, InCategory)
          IN  [ playlist_count |-> Len(category_playlists),
                total_videos |-> SumVideos(category_playlists),
                playlists |-> category_playlists ] ]

\* get_category_summary with category_playlists.reverse().
get_category_summary_Reversed(custom_rules, playlists) ==
  LET categorized == categorize_playlists_Reversed(custom_rules, playlists)
  IN  [ v \in Values |->
          LET InCategory(p) == p["category"] = v
              category_playlists == SelectSeq(categorized, InCategory)
          IN  [ playlist_count |-> Len(category_playlists),
                total_videos |-> SumVideos(category_playlists),
                playlists |-> category_playlists ] ]

\* The summary is a dict with one key per member's value.
get_category_summary(custom_rules, playlists) ==
  LET categorized == categorize_playlists(custom_rules, playlists)
  IN  [ v \in Values |->
          LET InCategory(p) == p["category"] = v
              category_playlists == SelectSeq(categorized, InCategory)
          IN  [ playlist_count |-> Len(category_playlists),
                total_videos |-> SumVideos(category_playlists),
                playlists |-> category_playlists ] ]

\* 0.3, in twentieths.
LOW_CONFIDENCE == 6

\* suggest_category_improvements with "<= 0.3".
suggest_category_improvements_AtMost(custom_rules, playlists) ==
  LET categorized == categorize_playlists(custom_rules, playlists)
      NeedsReview(p) ==
        \/ p["category_confidence"] <= LOW_CONFIDENCE
        \/ p["category"] = value["OTHER"]
  IN  SelectSeq(categorized, NeedsReview)

suggest_category_improvements(custom_rules, playlists) ==
  LET categorized == categorize_playlists(custom_rules, playlists)
      NeedsReview(p) ==
        \/ p["category_confidence"] < LOW_CONFIDENCE
        \/ p["category"] = value["OTHER"]
  IN  SelectSeq(categorized, NeedsReview)

(***************************************************************************)
(* The state: the categorizer's custom rules, the web server's global      *)
(* youtube_manager, the last call made on the categorizer with what it     *)
(* returned, and the last HTTP request with its response.                  *)
(***************************************************************************)
VARIABLES custom_rules, youtube_manager, call, response

vars == << custom_rules, youtube_manager, call, response >>

\* Lists of at most MaxBatch records of the catalog, no record twice.
Batches ==
  { playlists \in UNION { [1..n -> Catalog] : n \in 0..MaxBatch } :
      \A i, j \in 1..Len(playlists) : playlists[i] = playlists[j] => i = j }

Init ==
  /\ custom_rules = << >>
  /\ youtube_manager = NoneObject
  /\ call = [op |-> "none"]
  /\ response = [route |-> "none"]

(***************************************************************************)
(* The operations of PlaylistCategorizer.  The four read operations leave  *)
(* the store as it is and return what the store and their arguments        *)
(* determine, so the states reached are the same whether or not read       *)
(* calls follow one another: the model makes a read call when the store    *)
(* has just been built or changed (Fresh).  An add that follows a read     *)
(* call keeps what that call returned (earlier); the read calls after it   *)
(* return what they return after the same adds without that read call.     *)
(***************************************************************************)
Fresh ==
  \/ call.op = "none"
  \/ call.op = "add_custom_rule" /\ call.earlier.op = "none"

\* CategoryRule(keywords=keywords, category=category, weight=weight)
CategoryRule(keywords, category, weight) ==
  [keywords |-> keywords, category |-> category, weight |-> weight]

\* add_custom_rule with custom_rules.insert(0, rule).
add_custom_rule_First(rules_before, keywords, category, weight) ==
  << CategoryRule(keywords, category, weight) >> \o rules_before

add_custom_rule(rules_before, keywords, category, weight) ==
  Append(rules_before, CategoryRule(keywords, category, weight))

\* add_custom_rule writes self.custom_rules only: what the caller got from
\* the read call before it (earlier) is in the caller's hands as it was.
AddCustomRule(keywords, category, weight) ==
  /\ Len(custom_rules) < MaxCustom
  /\ custom_rules' = add_custom_rule(custom_rules, keywords, category, weight)
  /\ call' = [op |-> "add_custom_rule",
              rule |-> CategoryRule(keywords, category, weight),
              earlier |-> IF call.op \in { "none", "add_custom_rule" }
                            THEN [op |-> "none"] ELSE call]
  /\ UNCHANGED << youtube_manager, response >>

\* nth: how many times in a row this call has been made.
CategorizePlaylist(title, description) ==
  /\ Fresh
  /\ call' = [op |-> "categorize_playlist",
              title |-> title, description |-> description,
              category_scores |->
                CategoryScores(custom_rules, Text(title, description)),
              ret |-> categorize_playlist(custom_rules, title, description),
              nth |-> 1]
  /\ UNCHANGED << custom_rules, youtube_manager, response >>

\* CategorizePlaylistAgain with "all_rules = self.rules" followed by
\* "all_rules.extend(self.custom_rules)": each call leaves the custom rules
\* in self.rules once more.
CategorizePlaylistAgain_Extend ==
  LET extended == custom_rules \o custom_rules
  IN  /\ call.op = "categorize_playlist"
      /\ call.nth < MaxRepeat
      /\ call' = [op |-> "categorize_playlist",
                  title |-> call.title, description |-> call.description,
                  category_scores |->
                    CategoryScores(extended, Text(call.title, call.description)),
                  ret |-> categorize_playlist(extended, call.title,
                                              call.description),
                  nth |-> call.nth + 1]
      /\ UNCHANGED << custom_rules, youtube_manager, response >>

\* The caller makes the categorize_playlist call it has just made again.
CategorizePlaylistAgain ==
  /\ call.op = "categorize_playlist"
  /\ call.nth < MaxRepeat
  /\ call' = [op |-> "categorize_playlist",
              title |-> call.title, description |-> call.description,
              category_scores |->
                CategoryScores(custom_rules, Text(call.title, call.description)),
              ret |-> categorize_playlist(custom_rules, call.title,
                                          call.description),
              nth |-> call.nth + 1]
  /\ UNCHANGED << custom_rules, youtube_manager, response >>

\* The caller's list after categorize_playlists has run on it: line 204
\* copies each record and lines 205-206 write to the copy.
\* playlists_after with "enhanced_playlist = playlist": lines 205-206
\* write to the caller's record.
playlists_after_NoCopy(rules_now, playlists) ==
  categorize_playlists(rules_now, playlists)

playlists_after(rules_now, playlists) == playlists

CategorizePlaylists(playlists) ==
  /\ Fresh
  /\ call' = [op |-> "categorize_playlists", playlists |-> playlists,
              ret |-> categorize_playlists(custom_rules, playlists),
              after |-> playlists_after(custom_rules, playlists)]
  /\ UNCHANGED << custom_rules, youtube_manager, response >>

GetCategorySummary(playlists) ==
  /\ Fresh
  /\ call' = [op |-> "get_category_summary", playlists |-> playlists,
              ret |-> get_category_summary(custom_rules, playlists),
              after |-> playlists_after(custom_rules, playlists)]
  /\ UNCHANGED << custom_rules, youtube_manager, response >>

SuggestCategoryImprovements(playlists) ==
  /\ Fresh
  /\ call' = [op |-> "suggest_category_improvements", playlists |-> playlists,
              ret |-> suggest_category_improvements(custom_rules, playlists),
              after |-> playlists_after(custom_rules, playlists)]
  /\ UNCHANGED << custom_rules, youtube_manager, response >>

Next ==
  \/ \E keywords \in KeywordLists, category \in RuleCategories, weight \in Weights :
       AddCustomRule(keywords, category, weight)
  \/ \E title \in Titles, description \in Descriptions :
       CategorizePlaylist(title, description)
  \/ CategorizePlaylistAgain
  \/ \E playlists \in Batches : CategorizePlaylists(playlists)
  \/ \E playlists \in Batches : GetCategorySummary(playlists)
  \/ \E playlists \in Batches : SuggestCategoryImprovements(playlists)

Spec == Init /\ [][Next]_vars

(***************************************************************************)
(* The four read operations pass by pass.  In this specification call is   *)
(* the frame of the running call: its arguments, its local variables and   *)
(* where it stands (pc), with the frame of the categorize_playlist call it *)
(* is waiting for (inner).  The interpreter runs one thread and no         *)
(* statement of the four operations waits for anything, so the next pass   *)
(* of a running call is always taken (weak fairness of Step); when a call  *)
(* is made, and with what, is the caller's choice.                         *)
(***************************************************************************)
StepOps ==
  { "categorize_playlist", "categorize_playlists", "get_category_summary",
    "suggest_category_improvements" }

\* No call is running.
Idle ==
  IF call.op \in StepOps THEN call.pc = "returned" ELSE TRUE

Running == ~Idle

\* categorize_playlist(title, description) at line 162: all_rules is built,
\* no rule is passed yet (k), category_scores is {}.
Frame(title, description) ==
  [op |-> "categorize_playlist", title |-> title, description |-> description,
   text |-> Text(title, description), all_rules |-> rules \o custom_rules,
   k |-> 0, category_scores |-> << >>, pc |-> "loop", ret |-> << >>]

\* Lines 176-183 going back to line 162 instead of returning.
Return_Restart(f) ==
  [f EXCEPT !.k = 0, !.category_scores = << >>]

\* Lines 176-183: the call returns.
Return(f) ==
  [f EXCEPT !.pc = "returned", !.ret = BestCategory(f.category_scores)]

\* One pass of "for rule in all_rules" (lines 164-174), or the return when
\* no rule is left.
StepFrame(f) ==
  IF f.k < Len(f.all_rules)
    THEN [f EXCEPT !.k = f.k + 1,
                   !.category_scores = ScoreRule(@, f.all_rules[f.k + 1], f.text)]
    ELSE Return(f)

\* A batch operation at its first line: nothing is categorized yet.
\* m counts the passes of the operation's own loop, collected is what that
\* loop has built ({} and [] are both the empty function).
BatchFrame(op, playlists) ==
  [op |-> op, playlists |-> playlists, categorized |-> << >>,
   inner |-> NoneObject, pc |-> "categorize", m |-> 0, collected |-> << >>,
   ret |-> << >>]

\* categorize_playlists (lines 195-210): the call of categorize_playlist
\* for the next record, a pass of that call, lines 203-208 when it has
\* returned, and the end of the loop.
StepCategorize(f) ==
  IF f.inner # NoneObject
    THEN IF f.inner.pc = "returned"
           THEN [f EXCEPT !.categorized =
                            Append(@, Enhanced(f.playlists[Len(@) + 1],
                                               f.inner.ret[1], f.inner.ret[2])),
                          !.inner = NoneObject]
           ELSE [f EXCEPT !.inner = StepFrame(f.inner)]
  ELSE IF Len(f.categorized) < Len(f.playlists)
    THEN LET playlist == f.playlists[Len(f.categorized) + 1]
         IN  [f EXCEPT !.inner = Frame(Get(playlist, "title", ""),
                                       Get(playlist, "description", ""))]
  ELSE IF f.op = "categorize_playlists"
    THEN [f EXCEPT !.pc = "returned", !.ret = f.categorized]
  ELSE [f EXCEPT !.pc = "collect"]

\* One pass of "for category in PlaylistCategory" (lines 224-233), or the
\* return of the summary.
StepSummary(f) ==
  IF f.m < Len(PlaylistCategory)
    THEN LET v == value[PlaylistCategory[f.m + 1]]
             InCategory(p) == p["category"] = v
             category_playlists == SelectSeq(f.categorized, InCategory)
             entry == [ playlist_count |-> Len(category_playlists),
                        total_videos |-> SumVideos(category_playlists),
                        playlists |-> category_playlists ]
         IN  [f EXCEPT !.m = f.m + 1,
                       !.collected = [ key \in DOMAIN @ \cup { v } |->
                                         IF key = v THEN entry ELSE @[key] ]]
    ELSE [f EXCEPT !.pc = "returned", !.ret = f.collected]

\* One item of the list comprehension of lines 249-252, or the return of
\* the suggestions.
StepSuggest(f) ==
  IF f.m < Len(f.categorized)
    THEN LET p == f.categorized[f.m + 1]
         IN  [f EXCEPT !.m = f.m + 1,
                       !.collected =
                         IF \/ p["category_confidence"] < LOW_CONFIDENCE
                            \/ p["category"] = value["OTHER"]
                           THEN Append(@, p) ELSE @]
    ELSE [f EXCEPT !.pc = "returned", !.ret = f.collected]

StepCall(f) ==
  IF f.op = "categorize_playlist" THEN StepFrame(f)
  ELSE IF f.pc = "categorize" THEN StepCategorize(f)
  ELSE IF f.op = "get_category_summary" THEN StepSummary(f)
  ELSE StepSuggest(f)

\* The caller calls categorize_playlist.
CallCategorizePlaylist(title, description) ==
  /\ Idle
  /\ call' = Frame(title, description)
  /\ UNCHANGED << custom_rules, youtube_manager, response >>

\* The caller calls one of the three batch operations.
CallBatch(op, playlists) ==
  /\ Idle
  /\ call' = BatchFrame(op, playlists)
  /\ UNCHANGED << custom_rules, youtube_manager, response >>

\* The running call makes its next pass.
Step ==
  /\ Running
  /\ call' = StepCall(call)
  /\ UNCHANGED << custom_rules, youtube_manager, response >>

NextSteps ==
  \/ \E keywords \in KeywordLists :
       Idle /\ AddCustomRule(keywords, "FOOD", DEFAULT_WEIGHT)
  \/ \E title \in Titles, description \in Descriptions :
       CallCategorizePlaylist(title, description)
  \/ \E op \in StepOps \ { "categorize_playlist" }, playlists \in Batches :
       CallBatch(op, playlists)
  \/ Step

SpecSteps == Init /\ [][NextSteps]_vars /\ WF_vars(Step)

(***************************************************************************)
(* The web server (src/web_server.py; src/app.py has the same              *)
(* update_playlist_category).  Its categorizer is the module's global      *)
(* PlaylistCategorizer, whose custom rules are custom_rules.               *)
(***************************************************************************)
\* YouTubeManager(): nobody is logged in.
YouTubeManager == [service |-> None, playlist_manager |-> None]

\* login without its test of authenticate()'s result.
login_Unconditional(manager, authenticated) ==
  [service |-> manager.service, playlist_manager |-> "YouTubePlaylistManager"]

\* YouTubeManager.login, when authenticate() succeeds and when it fails.
login(manager, authenticated) ==
  IF authenticated
    THEN [service |-> "service", playlist_manager |-> "YouTubePlaylistManager"]
    ELSE manager

\* GET /api/playlists.  authenticated: whether authenticate() succeeds, if
\* it is called.
GetPlaylists(authenticated) ==
  LET manager == IF youtube_manager = NoneObject
                   THEN login(YouTubeManager, authenticated)
                   ELSE youtube_manager
  IN  /\ youtube_manager' = manager
      /\ response' =
           IF youtube_manager = NoneObject /\ ~authenticated
             THEN [route |-> "get_playlists", status |-> 500,
                   error |-> "Failed to authenticate with YouTube"]
           ELSE IF manager.playlist_manager = None
             THEN [route |-> "get_playlists", status |-> 500,
                   error |-> "Not logged in. Call login() first."]
           ELSE [route |-> "get_playlists", status |-> 200,
                 user_playlists |-> categorize_playlists(custom_rules, Account),
                 category_summary |-> get_category_summary(custom_rules, Account)]
      /\ UNCHANGED << custom_rules, call >>

\* POST /api/refresh.  removed: whether os.remove('token.pickle') goes
\* through (or there is no such file); authenticated: whether authenticate()
\* then succeeds.
RefreshAuthentication(removed, authenticated) ==
  /\ youtube_manager' =
       IF removed THEN login(YouTubeManager, authenticated) ELSE youtube_manager
  /\ response' =
       IF ~removed
         THEN [route |-> "refresh_authentication", status |-> 500,
               error |-> "[Errno 13] Permission denied: 'token.pickle'"]
       ELSE IF authenticated
         THEN [route |-> "refresh_authentication", status |-> 200,
               success |-> TRUE, message |-> "Successfully re-authenticated"]
       ELSE [route |-> "refresh_authentication", status |-> 500,
             error |-> "Failed to authenticate"]
  /\ UNCHANGED << custom_rules, call >>

\* GET /api/health.
HealthCheck ==
  /\ response' = [route |-> "health_check", status |-> 200,
                  health |-> "healthy",
                  authenticated |-> youtube_manager # NoneObject]
  /\ UNCHANGED << custom_rules, youtube_manager, call >>

\* POST /api/playlist/<playlist_id>/category with the JSON body data.
UpdatePlaylistCategory(playlist_id, data) ==
  LET new_category == IF data = NoneObject THEN None ELSE Get(data, "category", None)
      category_enum == PlaylistCategoryOf(new_category)
      Rejected(status, error) ==
        /\ response' = [route |-> "update_playlist_category",
                        playlist_id |-> playlist_id, data |-> data,
                        status |-> status, error |-> error]
        /\ UNCHANGED custom_rules
  IN  /\ CASE youtube_manager = NoneObject -> Rejected(401, "Not authenticated")
            [] youtube_manager # NoneObject /\ data = NoneObject ->
                 Rejected(500, "'NoneType' object has no attribute 'get'")
            [] youtube_manager # NoneObject /\ data # NoneObject
                 /\ new_category \in { None, "" } ->
                 Rejected(400, "Category is required")
            [] youtube_manager # NoneObject /\ data # NoneObject
                 /\ new_category \notin { None, "" }
                 /\ category_enum = ValueError ->
                 Rejected(400, "Invalid category: " \o new_category)
            [] OTHER ->
                 /\ Len(custom_rules) < MaxCustom
                 /\ custom_rules' =
                      add_custom_rule(custom_rules, << playlist_id >>, category_enum, 10)
                 /\ response' = [route |-> "update_playlist_category",
                                 playlist_id |-> playlist_id, data |-> data,
                                 status |-> 200, success |-> TRUE,
                                 message |-> "Playlist category updated to "
                                               \o new_category,
                                 new_category |-> new_category]
      /\ UNCHANGED << youtube_manager, call >>

NextWeb ==
  \/ \E authenticated \in BOOLEAN : GetPlaylists(authenticated)
  \/ \E playlist_id \in PlaylistIds, data \in Bodies :
       UpdatePlaylistCategory(playlist_id, data)
  \/ \E removed, authenticated \in BOOLEAN :
       RefreshAuthentication(removed, authenticated)
  \/ HealthCheck

SpecWeb == Init /\ [][NextWeb]_vars

(***************************************************************************)
(* The web server with its requests served by threads (app.run serves      *)
(* each request in a thread of its own): while a GET /api/playlists is     *)
(* between its categorize_playlists call (line 39) and its                 *)
(* get_category_summary call (line 42), POST requests are served.  call    *)
(* is the categorizer call the GET request has made and not yet followed   *)
(* up; one GET request is in flight at a time.  The POST handler's one     *)
(* write to what the threads share is custom_rules.append.                 *)
(***************************************************************************)
\* Lines 26-39 of get_playlists.
GetPlaylistsCategorize(authenticated) ==
  LET manager == IF youtube_manager = NoneObject
                   THEN login(YouTubeManager, authenticated)
                   ELSE youtube_manager
  IN  /\ call.op = "none"
      /\ youtube_manager' = manager
      /\ IF youtube_manager = NoneObject /\ ~authenticated
           THEN /\ response' = [route |-> "get_playlists", status |-> 500,
                                error |-> "Failed to authenticate with YouTube"]
                /\ UNCHANGED call
         ELSE IF manager.playlist_manager = None
           THEN /\ response' = [route |-> "get_playlists", status |-> 500,
                                error |-> "Not logged in. Call login() first."]
                /\ UNCHANGED call
         ELSE /\ call' = [op |-> "categorize_playlists", playlists |-> Account,
                          ret |-> categorize_playlists(custom_rules, Account),
                          after |-> playlists_after(custom_rules, Account)]
              /\ UNCHANGED response
      /\ UNCHANGED custom_rules

\* Lines 42-100 of get_playlists.
GetPlaylistsSummarize ==
  /\ call.op = "categorize_playlists"
  /\ response' = [route |-> "get_playlists", status |-> 200,
                  user_playlists |-> call.ret,
                  category_summary |->
                    get_category_summary(custom_rules, call.after)]
  /\ call' = [op |-> "none"]
  /\ UNCHANGED << custom_rules, youtube_manager >>

NextThreads ==
  \/ \E authenticated \in BOOLEAN : GetPlaylistsCategorize(authenticated)
  \/ GetPlaylistsSummarize
  \/ \E playlist_id \in PlaylistIds, data \in Bodies :
       UpdatePlaylistCategory(playlist_id, data)

SpecThreads == Init /\ [][NextThreads]_vars

(***************************************************************************)
(* A YouTubeManager by itself (src/youtube_auth.py).  In this               *)
(* specification youtube_manager is the object, with its authenticator's   *)
(* credentials and service beside its playlist_manager, and call is the    *)
(* last call made on it.  token.pickle, credentials.json, Google's         *)
(* answers and the API's answers belong to the world outside the program   *)
(* (refresh_authentication removes token.pickle, the user revokes access): *)
(* every call reads them afresh, so each call draws them.                  *)
(***************************************************************************)
\* What google.oauth2 credentials are to authenticate().
Valid == [valid |-> TRUE, expired |-> FALSE, refresh_token |-> TRUE]

Expired == [valid |-> FALSE, expired |-> TRUE, refresh_token |-> TRUE]

ExpiredNoRefreshToken == [valid |-> FALSE, expired |-> TRUE, refresh_token |-> FALSE]

\* A token.pickle that does not unpickle.
Corrupt == [corrupt |-> TRUE]

\* What a call of authenticate() meets: token.pickle (NoneObject when there
\* is none, or what is pickled in it), whether credentials.json exists,
\* whether refresh() and run_local_server() succeed, whether token.pickle
\* can be written, and whether build() succeeds.
Worlds ==
  [token_file : { NoneObject, Corrupt, Valid, Expired, ExpiredNoRefreshToken },
   credentials_file : BOOLEAN, refresh : BOOLEAN, flow : BOOLEAN,
   writable : BOOLEAN, build : BOOLEAN]

\* YouTubeAuthenticator.authenticate: the authenticator's credentials and
\* service after the call, what it returns, and whether it wrote
\* token.pickle.
authenticate(authenticator, world) ==
  LET failed(credentials, saved) ==
        [credentials |-> credentials, service |-> authenticator.service,
         ret |-> FALSE, saved |-> saved]
      built(credentials, saved) ==
        IF world.build
          THEN [credentials |-> credentials, service |-> "service",
                ret |-> TRUE, saved |-> saved]
          ELSE failed(credentials, saved)
      loaded == IF world.token_file = NoneObject
                  THEN authenticator.credentials
                  ELSE world.token_file
  IN  IF world.token_file = Corrupt
        THEN failed(authenticator.credentials, FALSE)
      ELSE IF loaded # NoneObject /\ loaded.valid
        THEN built(loaded, FALSE)
      ELSE IF loaded # NoneObject /\ loaded.expired /\ loaded.refresh_token
        THEN IF ~world.refresh THEN failed(loaded, FALSE)
             ELSE IF ~world.writable THEN failed(Valid, FALSE)
             ELSE built(Valid, TRUE)
      ELSE IF ~world.credentials_file THEN failed(loaded, FALSE)
      ELSE IF ~world.flow THEN failed(loaded, FALSE)
      ELSE IF ~world.writable THEN failed(Valid, FALSE)
      ELSE built(Valid, TRUE)

\* The first max_results items of what the API lists.
Listed(items, max_results) ==
  SubSeq(items, 1, IF Len(items) < max_results THEN Len(items) ELSE max_results)

\* The videos of a playlist, as get_playlist_items builds them (position
\* and id only).
VideosOf(playlist_id) ==
  LET found == { i \in 1..Len(Account) : Account[i]["id"] = playlist_id }
  IN  IF found = {} THEN << >>
      ELSE LET n == Account[CHOOSE i \in found : TRUE].video_count
           IN  [k \in 1..n |-> [video_id |-> playlist_id, position |-> k - 1]]

Channel == [id |-> "UC1", title |-> "My channel"]

MaxResultsValues == { 1, 2, 50 }

InitManager ==
  /\ custom_rules = << >>
  /\ youtube_manager = [credentials |-> NoneObject, service |-> YouTubeManager.service,
                        playlist_manager |-> YouTubeManager.playlist_manager]
  /\ call = [op |-> "none"]
  /\ response = [route |-> "none"]

\* YouTubeManager.login.
Login(world) ==
  LET a == authenticate(youtube_manager, world)
      m == login([service |-> a.service,
                  playlist_manager |-> youtube_manager.playlist_manager], a.ret)
  IN  /\ youtube_manager' = [credentials |-> a.credentials, service |-> m.service,
                             playlist_manager |-> m.playlist_manager]
      /\ call' = [op |-> "login", ret |-> a.ret, saved |-> a.saved]
      /\ UNCHANGED << custom_rules, response >>

\* What a call of the manager that goes through its playlist_manager
\* gives: ValueError when nobody is logged in, ValueError from the
\* playlist manager when the authenticator has no service, the API's
\* answer otherwise, and the empty answer when the API raises.
Guarded(op, args, answer, empty, api) ==
  IF youtube_manager.playlist_manager = None
    THEN [op |-> op, args |-> args, raises |-> "Not logged in. Call login() first."]
  ELSE IF youtube_manager.service = None
    THEN [op |-> op, args |-> args,
          raises |-> "Not authenticated. Call authenticate() first."]
  ELSE [op |-> op, args |-> args, raises |-> None,
        ret |-> IF api THEN answer ELSE empty]

\* YouTubeManager.get_saved_playlists.
GetSavedPlaylists(max_results, api) ==
  /\ call' = Guarded("get_saved_playlists", << max_results >>,
                     Listed(Account, max_results), << >>, api)
  /\ UNCHANGED << custom_rules, youtube_manager, response >>

\* YouTubeManager.get_playlist_videos.
GetPlaylistVideos(playlist_id, max_results, api) ==
  /\ call' = Guarded("get_playlist_videos", << playlist_id, max_results >>,
                     Listed(VideosOf(playlist_id), max_results), << >>, api)
  /\ UNCHANGED << custom_rules, youtube_manager, response >>

\* YouTubeManager.get_channel_info ({} is the empty function).
GetChannelInfo(api) ==
  /\ call' = Guarded("get_channel_info", << >>, Channel, << >>, api)
  /\ UNCHANGED << custom_rules, youtube_manager, response >>

NextManager ==
  \/ \E world \in Worlds : Login(world)
  \/ \E max_results \in MaxResultsValues, api \in BOOLEAN :
       GetSavedPlaylists(max_results, api)
  \/ \E playlist_id \in PlaylistIds, max_results \in MaxResultsValues, api \in BOOLEAN :
       GetPlaylistVideos(playlist_id, max_results, api)
  \/ \E api \in BOOLEAN : GetChannelInfo(api)

SpecManager == InitManager /\ [][NextManager]_vars

(***************************************************************************)
(* What the properties below are stated with.                              *)
(***************************************************************************)
AllRules == rules \o custom_rules

\* The positions where keyword, in lower case, stands in text delimited by
\* word boundaries: at each of its two ends, a word character on one side
\* and none on the other.
BoundaryAt(text, i) == IsWordAt(text, i - 1) # IsWordAt(text, i)

PositionsOf ==
  [ keyword \in Keywords, text \in Texts |->
      LET kw == lower(keyword)
      IN  { i \in 1..(Len(text) + 1) :
              /\ i + Len(kw) - 1 <= Len(text)
              /\ SubSeq(text, i, i + Len(kw) - 1) = kw
              /\ BoundaryAt(text, i)
              /\ BoundaryAt(text, i + Len(kw)) } ]

\* How many of the positions are counted going from left to right, a
\* position being passed over when it lies within the occurrence counted
\* before it; n is the length of the keyword.
RECURSIVE LeftToRight(_, _)
LeftToRight(positions, n) ==
  IF positions = {} THEN 0
  ELSE LET first == CHOOSE p \in positions : \A q \in positions : p <= q
           next == first + (IF n = 0 THEN 1 ELSE n)
       IN  1 + LeftToRight({ q \in positions : q >= next }, n)

OccurrencesOf ==
  [ keyword \in Keywords, text \in Texts |->
      LeftToRight(PositionsOf[keyword, text], Len(keyword)) ]

Occurrences(keyword, text) == OccurrencesOf[keyword, text]

RECURSIVE TotalOccurrences(_, _)
TotalOccurrences(keywords, text) ==
  IF keywords = << >> THEN 0
  ELSE Occurrences(Head(keywords), text) + TotalOccurrences(Tail(keywords), text)

\* What a rule adds to its category: its weight times the occurrences of
\* its keywords.  A rule matches a text when that is more than nothing.
Contribution(rule, text) == rule.weight * TotalOccurrences(rule.keywords, text)

Matches(rule, text) == Contribution(rule, text) > 0

\* The sum of f[k] over the indices k of a set.
RECURSIVE SumOver(_, _)
SumOver(f, indices) ==
  IF indices = {} THEN 0
  ELSE LET k == CHOOSE k \in indices : TRUE
       IN  f[k] + SumOver(f, indices \ {k})

\* dict.get(category, 0) on category_scores.
ScoreOf(category_scores, category) ==
  IF HasKey(category_scores, category)
    THEN category_scores[CHOOSE i \in 1..Len(category_scores) :
                           category_scores[i][1] = category][2]
    ELSE 0

\* The largest score of category_scores.
BestScore(category_scores) ==
  CHOOSE best \in { category_scores[i][2] : i \in 1..Len(category_scores) } :
    \A i \in 1..Len(category_scores) : category_scores[i][2] <= best

CallText == Text(call.title, call.description)

(***************************************************************************)
(* C1 Totality: categorize_playlist, and categorize_playlists for each     *)
(* record of its batch (records without a title or a description          *)
(* included), returns one member of PlaylistCategory and a confidence      *)
(* between 0.0 and 1.0 (0 to 20 twentieths), whatever rules                *)
(* add_custom_rule has stored.                                             *)
(***************************************************************************)
C1_Totality ==
  /\ call.op = "categorize_playlist" =>
       /\ call.ret[1] \in Members
       /\ call.ret[2] \in 0..20
  /\ call.op = "categorize_playlists" =>
       /\ Len(call.ret) = Len(call.playlists)
       /\ \A i \in 1..Len(call.ret) :
            /\ call.ret[i]["category"] \in Values
            /\ call.ret[i]["category_confidence"] \in 0..20

\* A batch with a record that has no title was categorized under a store
\* that holds a rule of negative weight.
C1_Witness ==
  /\ call.op = "categorize_playlists"
  /\ \E i \in 1..Len(call.playlists) : "title" \notin DOMAIN call.playlists[i]
  /\ \E k \in 1..Len(custom_rules) : custom_rules[k].weight < 0

(***************************************************************************)
(* C4 Score formula, as claimed: the score accumulated for a category is   *)
(* the sum, over all rules that target it, of the rule's weight times the  *)
(* occurrences of its keywords; 'Pizza' / 'Delicious pizza recipes' gives  *)
(* Food 30 and the result (Food, 1.0).                                     *)
(***************************************************************************)
C4_ScoreFormula ==
  call.op = "categorize_playlist" =>
    /\ \A category \in Members :
         ScoreOf(call.category_scores, category) =
           SumOver([ k \in 1..Len(AllRules) |-> Contribution(AllRules[k], CallText) ],
                   { k \in 1..Len(AllRules) : AllRules[k].category = category })
    /\ ( /\ custom_rules = << >>
         /\ call.title = "Pizza"
         /\ call.description = "Delicious pizza recipes" ) =>
         /\ ScoreOf(call.category_scores, "FOOD") = 30
         /\ call.ret = << "FOOD", 20 >>

(***************************************************************************)
(* C5 Fallback: when no keyword of any rule, built-in or custom, occurs    *)
(* in the text, categorize_playlist returns (Other, 0.0); so it does for   *)
(* 'Random stuff' / 'Various videos' under the built-in rules.             *)
(***************************************************************************)
NoKeywordOccurs ==
  \A k \in 1..Len(AllRules) : TotalOccurrences(AllRules[k].keywords, CallText) = 0

C5_Fallback ==
  call.op = "categorize_playlist" =>
    /\ NoKeywordOccurs => call.ret = << "OTHER", 0 >>
    /\ ( /\ custom_rules = << >>
         /\ call.title = "Random stuff"
         /\ call.description = "Various videos" ) => call.ret = << "OTHER", 0 >>

\* 'Random stuff' / 'Various videos' was categorized under a store whose
\* custom rules do not occur in it either.
C5_Witness ==
  /\ call.op = "categorize_playlist"
  /\ call.title = "Random stuff"
  /\ call.description = "Various videos"
  /\ custom_rules # << >>
  /\ NoKeywordOccurs

(***************************************************************************)
(* C6 Tie-break: when several categories share the largest accumulated     *)
(* score, categorize_playlist returns the one whose first matching rule    *)
(* comes earliest in the built-in rules followed by the custom rules.      *)
(***************************************************************************)
FirstMatch(category) ==
  CHOOSE k \in 1..Len(AllRules) :
    /\ AllRules[k].category = category
    /\ Matches(AllRules[k], CallText)
    /\ \A j \in 1..(k - 1) :
         ~(AllRules[j].category = category /\ Matches(AllRules[j], CallText))

Tied ==
  { category \in Members :
      /\ HasKey(call.category_scores, category)
      /\ ScoreOf(call.category_scores, category) = BestScore(call.category_scores) }

C6_TieBreak ==
  (call.op = "categorize_playlist" /\ call.category_scores # << >>) =>
    /\ call.ret[1] \in Tied
    /\ \A category \in Tied : FirstMatch(call.ret[1]) <= FirstMatch(category)

\* Food and Other tie through custom rules alone, and Other, whose rule
\* was added first, wins.
C6_Witness ==
  /\ call.op = "categorize_playlist"
  /\ call.category_scores # << >>
  /\ Tied = { "FOOD", "OTHER" }
  /\ call.ret[1] = "OTHER"
  /\ FirstMatch("OTHER") > Len(rules)

(***************************************************************************)
(* C7 Confidence: when at least one rule matches, the confidence is the    *)
(* smaller of bestScore / 20 and 1.0, bestScore being the largest          *)
(* accumulated score; it is 1.0 exactly when bestScore >= 20.              *)
(***************************************************************************)
SomeRuleMatches == \E k \in 1..Len(AllRules) : Matches(AllRules[k], CallText)

C7_Confidence ==
  (call.op = "categorize_playlist" /\ SomeRuleMatches) =>
    LET bestScore == BestScore(call.category_scores)
    IN  /\ call.ret[2] = IF bestScore <= 20 THEN bestScore ELSE 20
        /\ call.ret[2] = 20 <=> bestScore >= 20

\* A score above 20 (30, for the pizza playlist) was cut to 1.0.
C7_Witness ==
  /\ call.op = "categorize_playlist"
  /\ SomeRuleMatches
  /\ BestScore(call.category_scores) > 20
  /\ call.ret[2] = 20

(***************************************************************************)
(* C8 Summary partition: in the result of get_category_summary the         *)
(* playlist counts add up to the size of the batch and the video totals    *)
(* add up to the video counts of the batch, a record without video_count   *)
(* counting as 0.                                                          *)
(***************************************************************************)
C8_SummaryPartition ==
  call.op = "get_category_summary" =>
    /\ SumOver([ v \in Values |-> call.ret[v].playlist_count ], Values)
         = Len(call.playlists)
    /\ SumOver([ v \in Values |-> call.ret[v].total_videos ], Values)
         = SumOver([ i \in 1..Len(call.playlists) |->
                       Get(call.playlists[i], "video_count", 0) ],
                   1..Len(call.playlists))

\* A batch of two, one record without video_count, was summarized under a
\* store with custom rules, and two categories have a member.
C8_Witness ==
  /\ call.op = "get_category_summary"
  /\ Len(call.playlists) >= 2
  /\ \E i \in 1..Len(call.playlists) : "video_count" \notin DOMAIN call.playlists[i]
  /\ custom_rules # << >>
  /\ Cardinality({ v \in Values : call.ret[v].playlist_count > 0 }) >= 2

(***************************************************************************)
(* C9 Review flagging: suggest_category_improvements returns, in input     *)
(* order, exactly the records of the categorized batch with confidence     *)
(* below 0.3 or category Other; (Other, 0.0) is always returned, and a     *)
(* record with confidence >= 0.3 (score >= 6) in another category never.   *)
(***************************************************************************)
C9_ReviewFlagging ==
  call.op = "suggest_category_improvements" =>
    LET categorized == categorize_playlists(custom_rules, call.playlists)
        kept == { i \in 1..Len(categorized) :
                    \/ categorized[i]["category_confidence"] < 6
                    \/ categorized[i]["category"] = "Other" }
        Nth(n) == CHOOSE i \in kept : Cardinality({ j \in kept : j <= i }) = n
        Returned(p) == \E n \in 1..Len(call.ret) : call.ret[n] = p
    IN  /\ Len(call.ret) = Cardinality(kept)
        /\ \A n \in 1..Len(call.ret) : call.ret[n] = categorized[Nth(n)]
        /\ \A i \in 1..Len(categorized) :
             /\ ( /\ categorized[i]["category"] = "Other"
                  /\ categorized[i]["category_confidence"] = 0 )
                  => Returned(categorized[i])
             /\ ( /\ categorized[i]["category"] # "Other"
                  /\ categorized[i]["category_confidence"] >= 6 )
                  => ~Returned(categorized[i])

\* A record at the boundary (confidence 0.3, not Other) was left out, and
\* a record after it was returned for its category, Other, alone.
C9_Witness ==
  /\ call.op = "suggest_category_improvements"
  /\ Len(call.playlists) >= 2
  /\ Len(call.ret) = 1
  /\ call.ret[1]["id"] = call.playlists[2]["id"]
  /\ call.ret[1]["category"] = "Other"
  /\ call.ret[1]["category_confidence"] >= 6
  /\ categorize_playlists(custom_rules, call.playlists)[1]["category_confidence"] = 6

(***************************************************************************)
(* C2 Override non-effect: when update_playlist_category adds the rule     *)
(* whose one keyword is the playlist id, categorize_playlist returns the   *)
(* same (category, confidence) as before for every item whose title and    *)
(* description do not contain the id as a whole word.                      *)
(***************************************************************************)
\* The words of a string: its longest runs of word characters.
Words(s) ==
  { SubSeq(s, ij[1], ij[2]) :
      ij \in { ij \in (1..Len(s)) \X (1..Len(s)) :
                 /\ ij[1] <= ij[2]
                 /\ \A k \in ij[1]..ij[2] : IsWordAt(s, k)
                 /\ ~IsWordAt(s, ij[1] - 1)
                 /\ ~IsWordAt(s, ij[2] + 1) } }

WordsOf ==
  [ p \in Catalog |->
      Words(lower(Get(p, "title", ""))) \cup Words(lower(Get(p, "description", ""))) ]

ContainsId(p, id) == lower(id) \in WordsOf[p]

OverrideAdded ==
  /\ response'.route = "update_playlist_category"
  /\ response'.status = 200
  /\ custom_rules' # custom_rules

Overridden(id) ==
  \E k \in 1..Len(custom_rules) : custom_rules[k].keywords = << id >>

\* The category of the last successful override of the playlist.
OverrideCategory(id) ==
  LET k == CHOOSE k \in 1..Len(custom_rules) :
             /\ custom_rules[k].keywords = << id >>
             /\ \A j \in (k + 1)..Len(custom_rules) :
                  custom_rules[j].keywords # << id >>
  IN  custom_rules[k].category

C3_OverrideTakesEffect ==
  (response.route = "get_playlists" /\ response.status = 200) =>
    \A i \in 1..Len(response.user_playlists) :
      LET p == response.user_playlists[i]
      IN  Overridden(p["id"]) =>
            /\ p["category"] = value[OverrideCategory(p["id"])]
            /\ \E n \in 1..Len(response.category_summary[p["category"]].playlists) :
                 response.category_summary[p["category"]].playlists[n]["id"] = p["id"]

(***************************************************************************)
(* C10 Invalid override label, as claimed: a call of                       *)
(* update_playlist_category with a category string that is no member's     *)
(* value is rejected with an 'Invalid category' error and leaves the       *)
(* custom rules as they are.                                               *)
(***************************************************************************)
InvalidLabelRequest ==
  /\ response'.route = "update_playlist_category"
  /\ "category" \in DOMAIN response'.data
  /\ response'.data.category \notin Values

C10_InvalidLabel ==
  [][ InvalidLabelRequest =>
        /\ response'.status = 400
        /\ response'.error = "Invalid category: " \o response'.data.category
        /\ custom_rules' = custom_rules ]_vars

(***************************************************************************)
(* C10 as amended: such a call is rejected and leaves the custom rules as  *)
(* they are; the error is 'Invalid category' when youtube_manager is set   *)
(* and the string is not empty, 'Not authenticated' when youtube_manager   *)
(* is None, and 'Category is required' when the string is empty.           *)
(***************************************************************************)
C10_InvalidLabelAmended ==
  [][ InvalidLabelRequest =>
        /\ response'.status \in { 400, 401 }
        /\ custom_rules' = custom_rules
        /\ response'.error =
             IF youtube_manager = NoneObject THEN "Not authenticated"
             ELSE IF response'.data.category = "" THEN "Category is required"
             ELSE "Invalid category: " \o response'.data.category
        /\ response'.status = 401 <=> youtube_manager = NoneObject ]_vars

\* A member's name, which is no value, was rejected as an invalid
\* category by a server that holds custom rules.
C10_Witness ==
  /\ response.route = "update_playlist_category"
  /\ response.data = [category |-> "TRAVEL"]
  /\ response.status = 400
  /\ response.error = "Invalid category: TRAVEL"
  /\ custom_rules # << >>

(***************************************************************************)
(* C11 Malformed rule rejection: a call of add_custom_rule with an empty   *)
(* keyword list or with a weight of 0 or less is rejected, and the custom  *)
(* rules are after it what they were before it.                            *)
(***************************************************************************)
Malformed(rule) == rule.keywords = << >> \/ rule.weight <= 0

C11_MalformedRejected ==
  [][ (call'.op = "add_custom_rule" /\ Malformed(call'.rule)) =>
        custom_rules' = custom_rules ]_vars

(***************************************************************************)
(* C12 Append-only rule store: each add_custom_rule call makes             *)
(* custom_rules one longer with the new rule last and the rules stored     *)
(* before it where and what they were, and no step of the library or of    *)
(* the web server makes custom_rules shorter or changes a stored rule.     *)
(* The built-in list is self.rules, assigned at line 38 and by no          *)
(* operation: the definition rules.                                        *)
(***************************************************************************)
IsPrefix(s, t) == Len(s) <= Len(t) /\ SubSeq(t, 1, Len(s)) = s

C12_AppendOnly ==
  [][ /\ IsPrefix(custom_rules, custom_rules')
      /\ call'.op = "add_custom_rule" =>
           /\ Len(custom_rules') = Len(custom_rules) + 1
           /\ custom_rules'[Len(custom_rules')] = call'.rule ]_vars

\* A rule was added to a store that held a different rule.
C12_Witness ==
  /\ call.op = "add_custom_rule"
  /\ Len(custom_rules) = 2
  /\ custom_rules[2] = call.rule
  /\ custom_rules[1] # custom_rules[2]

CategoryFields == { "category", "category_confidence" }

\* What categorize_playlist returns for a record.
ResultFor(playlist) ==
  categorize_playlist(custom_rules, Get(playlist, "title", ""),
                      Get(playlist, "description", ""))

\* element carries the category and the confidence of playlist, and the
\* fields of playlist named in kept as they are in playlist.
CategorizedFrom(element, playlist, kept) ==
  /\ DOMAIN element = DOMAIN playlist \cup CategoryFields
  /\ \A key \in kept : element[key] = playlist[key]
  /\ element["category"] = value[ResultFor(playlist)[1]]
  /\ element["category_confidence"] = ResultFor(playlist)[2]

C14_BatchOrder ==
  call.op = "categorize_playlists" =>
    /\ Len(call.ret) = Len(call.playlists)
    /\ \A i \in 1..Len(call.playlists) :
         CategorizedFrom(call.ret[i], call.playlists[i],
                         DOMAIN call.playlists[i])

\* C14 as amended: the fields other than 'category' and
\* 'category_confidence' are preserved, and these two are set, whatever the
\* record held under them.
C14_BatchOrderAmended ==
  call.op = "categorize_playlists" =>
    /\ Len(call.ret) = Len(call.playlists)
    /\ \A i \in 1..Len(call.playlists) :
         CategorizedFrom(call.ret[i], call.playlists[i],
                         DOMAIN call.playlists[i] \ CategoryFields)

\* A batch of two records of different categories, the second one
\* categorized before as something else.
C14_Witness ==
  /\ call.op = "categorize_playlists"
  /\ Len(call.playlists) = 2
  /\ "category" \in DOMAIN call.playlists[2]
  /\ call.ret[2]["category"] # call.playlists[2]["category"]
  /\ call.ret[1]["category"] # call.ret[2]["category"]
  /\ "description" \notin DOMAIN call.playlists[1]

(***************************************************************************)
(* C15 Read operations have no side effects: a call of                     *)
(* categorize_playlist, categorize_playlists, get_category_summary or      *)
(* suggest_category_improvements leaves the custom rules as they were,     *)
(* and the records of the caller's list are after the call what they were  *)
(* before it, with no 'category' or 'category_confidence' field gained.    *)
(* (The built-in rules are the definition rules: see C12.)                 *)
(***************************************************************************)
ReadOps ==
  { "categorize_playlist", "categorize_playlists", "get_category_summary",
    "suggest_category_improvements" }

BatchOps == ReadOps \ { "categorize_playlist" }

IndicesOf(playlists, v) ==
  { i \in 1..Len(playlists) : value[ResultFor(playlists[i])[1]] = v }

TenValues ==
  { "Food", "Career", "Investment", "Education", "Entertainment",
    "Health & Fitness", "Technology", "Travel", "Lifestyle", "Other" }

C16_SummaryComplete ==
  call.op = "get_category_summary" =>
    /\ DOMAIN call.ret = TenValues
    /\ \A v \in TenValues :
         IndicesOf(call.playlists, v) = {} =>
           /\ DOMAIN call.ret[v] = { "playlist_count", "total_videos", "playlists" }
           /\ call.ret[v].playlist_count = 0
           /\ call.ret[v].total_videos = 0
           /\ call.ret[v].playlists = << >>

\* The empty batch was summarized: ten entries, all of them empty.
C16_Witness ==
  /\ call.op = "get_category_summary"
  /\ call.playlists = << >>
  /\ custom_rules # << >>
  /\ \A v \in TenValues : call.ret[v].playlist_count = 0

(***************************************************************************)
(* C17 Summary membership: in the get_category_summary result the          *)
(* playlists list of a category holds exactly the records of the batch     *)
(* that categorize_playlist assigns to it under the current store, each    *)
(* once and in their input order, every record is in the list of one       *)
(* category only, and playlist_count is the length of the list.            *)
(***************************************************************************)
\* The k-th smallest element of a set of numbers.
Nth(indices, k) ==
  CHOOSE i \in indices : Cardinality({ j \in indices : j < i }) = k - 1

C17_SummaryMembership ==
  call.op = "get_category_summary" =>
    /\ \A i \in 1..Len(call.playlists) :
         Cardinality({ v \in DOMAIN call.ret : i \in IndicesOf(call.playlists, v) }) = 1
    /\ \A v \in DOMAIN call.ret :
         LET members == IndicesOf(call.playlists, v)
             listed == call.ret[v].playlists
         IN  /\ call.ret[v].playlist_count = Len(listed)
             /\ Len(listed) = Cardinality(members)
             /\ \A k \in 1..Len(listed) :
                  CategorizedFrom(listed[k], call.playlists[Nth(members, k)],
                                  DOMAIN call.playlists[Nth(members, k)]
                                    \ CategoryFields)

\* Two different records are in the list of one category, thanks to a
\* custom rule.
C17_Witness ==
  /\ call.op = "get_category_summary"
  /\ \E v \in DOMAIN call.ret :
       /\ Len(call.ret[v].playlists) = 2
       /\ call.ret[v].playlists[1] # call.ret[v].playlists[2]
       /\ v # categorize_playlists(<< >>, call.playlists)[2]["category"]

(***************************************************************************)
(* C18 Summary is computed fresh: get_category_summary does not read the   *)
(* 'category' and 'category_confidence' fields of its input records: for   *)
(* the store as it is, the summary of records categorized earlier, under   *)
(* whatever store, is the summary of the records themselves.               *)
(***************************************************************************)
\* The stores the records may have been categorized under earlier.
EarlierStores ==
  { << >> } \cup
  { << CategoryRule(keywords, category, weight) >> :
      keywords \in KeywordLists, category \in RuleCategories, weight \in Weights }

\* The record without the two fields.
Raw(playlist) ==
  [ key \in DOMAIN playlist \ CategoryFields |-> playlist[key] ]

C18_SummaryFresh ==
  call.op = "get_category_summary" =>
    /\ call.ret = get_category_summary(custom_rules,
                    [ i \in 1..Len(call.playlists) |-> Raw(call.playlists[i]) ])
    /\ \A earlier \in EarlierStores :
         get_category_summary(custom_rules,
                              categorize_playlists(earlier, call.playlists))
           = call.ret

\* A record that was categorized as Food earlier is summarized under Other,
\* and the batch is categorized differently under an earlier store.
C18_Witness ==
  /\ call.op = "get_category_summary"
  /\ \E i \in 1..Len(call.playlists) :
       /\ "category" \in DOMAIN call.playlists[i]
       /\ call.playlists[i]["category"] = "Food"
       /\ call.playlists[i]["id"] = call.ret["Other"].playlists[1]["id"]
  /\ \E earlier \in EarlierStores :
       categorize_playlists(earlier, call.playlists)
         # categorize_playlists(custom_rules, call.playlists)

(***************************************************************************)
(* C19 Whole-word matching: a keyword counts once for each position where  *)
(* it stands in the text, compared in lower case, as a complete word or    *)
(* word sequence delimited by word boundaries, and not where it is part    *)
(* of a longer word ('recipe' in 'recipes').                               *)
(***************************************************************************)
BuiltinKeywords == UNION { Range(rules[r].keywords) : r \in 1..Len(rules) }

CustomKeywords ==
  UNION { Range(custom_rules[r].keywords) : r \in 1..Len(custom_rules) }

\* Whether the counts of the built-in keywords in a text are the numbers of
\* their positions, and whether they are the numbers counted from left to
\* right.
BuiltinEveryPosition ==
  [ text \in Texts |->
      \A keyword \in BuiltinKeywords :
        keyword_count(keyword, text) = Cardinality(PositionsOf[keyword, text]) ]

BuiltinLeftToRight ==
  [ text \in Texts |->
      \A keyword \in BuiltinKeywords :
        keyword_count(keyword, text) = Occurrences(keyword, text) ]

C19_WholeWord ==
  call.op = "categorize_playlist" =>
    /\ BuiltinEveryPosition[CallText]
    /\ \A keyword \in CustomKeywords :
         keyword_count(keyword, CallText)
           = Cardinality(PositionsOf[keyword, CallText])

\* C19 as amended: the positions are counted from left to right, and one
\* that overlaps the occurrence counted before it is not counted.
C19_WholeWordAmended ==
  call.op = "categorize_playlist" =>
    /\ BuiltinLeftToRight[CallText]
    /\ \A keyword \in CustomKeywords :
         keyword_count(keyword, CallText) = Occurrences(keyword, CallText)

\* 'Bye bye bye' was categorized by the rule for 'bye bye', which stands in
\* it at two positions and is counted once.
C19_Witness ==
  /\ call.op = "categorize_playlist"
  /\ custom_rules = << CategoryRule(<< "bye bye" >>, "OTHER", DEFAULT_WEIGHT) >>
  /\ Cardinality(PositionsOf["bye bye", CallText]) = 2
  /\ call.category_scores = << << "OTHER", DEFAULT_WEIGHT >> >>

(***************************************************************************)
(* C20 A custom rule affects only later calls: the categorize_playlist     *)
(* call that follows an add_custom_rule scores the added rule, on top of   *)
(* what the rules before it score (categorize_playlists and the two        *)
(* operations built on it go through categorize_playlist, line 201), and   *)
(* what a read call returned before the add is after the add what it was.  *)
(***************************************************************************)
\* What a rule adds to the score of a category.
AddedTo(category, rule, text) ==
  IF category = rule.category /\ Contribution(rule, text) > 0
    THEN Contribution(rule, text) ELSE 0

C20_LaterCallsOnly ==
  [][ /\ (call.op = "add_custom_rule" /\ call'.op = "categorize_playlist") =>
           LET text == Text(call'.title, call'.description)
               before == SubSeq(custom_rules', 1, Len(custom_rules') - 1)
           IN  /\ custom_rules' = Append(before, call.rule)
               /\ \A category \in Members :
                    ScoreOf(call'.category_scores, category)
                      = ScoreOf(CategoryScores(before, text), category)
                          + AddedTo(category, call.rule, text)
      /\ (call.op \in ReadOps /\ call'.op = "add_custom_rule") =>
           call'.earlier = call ]_vars

\* The call after the add of a rule got a result that the rule decides.
C20_Witness ==
  /\ call.op = "categorize_playlist"
  /\ custom_rules # << >>
  /\ LET rule == custom_rules[Len(custom_rules)]
         before == SubSeq(custom_rules, 1, Len(custom_rules) - 1)
     IN  /\ Contribution(rule, CallText) > 0
         /\ call.ret[1] = rule.category
         /\ call.ret # categorize_playlist(before, call.title, call.description)

(***************************************************************************)
(* C21 Empty batch: for the empty list categorize_playlists and            *)
(* suggest_category_improvements return the empty list, and                *)
(* get_category_summary returns one entry per category with                *)
(* playlist_count 0, total_videos 0 and no playlists; each of them         *)
(* returns.                                                                *)
(***************************************************************************)
C21_EmptyBatch ==
  (call.op \in BatchOps /\ call.playlists = << >>) =>
    /\ "ret" \in DOMAIN call
    /\ call.op \in { "categorize_playlists", "suggest_category_improvements" } =>
         call.ret = << >>
    /\ call.op = "get_category_summary" =>
         /\ DOMAIN call.ret = TenValues
         /\ \A v \in TenValues :
              call.ret[v] = [playlist_count |-> 0, total_videos |-> 0,
                             playlists |-> << >>]

\* The summary of the empty batch under a store with two custom rules.
C21_Witness ==
  /\ call.op = "get_category_summary"
  /\ call.playlists = << >>
  /\ Len(custom_rules) = 2
  /\ call.ret["Other"].playlists = << >>

(***************************************************************************)
(* C24 Food priority: with the built-in rules only, a text in which a      *)
(* Food keyword occurs, and in which the Food keywords occur at least as   *)
(* often as the keywords of every other category, is categorized Food.     *)
(***************************************************************************)
\* How often the keywords of the built-in rules for a category occur.
BuiltinOccurrences(category, text) ==
  SumOver([ r \in 1..Len(rules) |->
              IF rules[r].category = category
                THEN TotalOccurrences(rules[r].keywords, text) ELSE 0 ],
          1..Len(rules))

FoodLeads(text) ==
  /\ BuiltinOccurrences("FOOD", text) >= 1
  /\ \A category \in Members \ { "FOOD" } :
       BuiltinOccurrences(category, text) <= BuiltinOccurrences("FOOD", text)

C24_FoodPriority ==
  (call.op = "categorize_playlist" /\ custom_rules = << >> /\ FoodLeads(CallText)) =>
    call.ret[1] = "FOOD"

\* A Food keyword and a keyword of another category occur once each.
C24_Witness ==
  /\ call.op = "categorize_playlist"
  /\ custom_rules = << >>
  /\ BuiltinOccurrences("FOOD", CallText) = 1
  /\ \E category \in Members \ { "FOOD" } :
       BuiltinOccurrences(category, CallText) = 1
  /\ call.ret[1] = "FOOD"

(***************************************************************************)
(* C26 Custom rules never unseat their own category: when                  *)
(* categorize_playlist has returned category C for a text and a custom     *)
(* rule of positive weight for C is added, categorize_playlist returns C   *)
(* for that text, with a confidence that is not lower, and the scores of   *)
(* the other categories are what they were.                                *)
(***************************************************************************)
C26_OwnCategoryKept ==
  ( /\ call.op = "add_custom_rule"
    /\ call.earlier.op = "categorize_playlist"
    /\ call.rule.weight > 0
    /\ call.rule.category = call.earlier.ret[1] ) =>
  LET title == call.earlier.title
      description == call.earlier.description
      after == categorize_playlist(custom_rules, title, description)
      scores == CategoryScores(custom_rules, Text(title, description))
  IN  /\ after[1] = call.earlier.ret[1]
      /\ after[2] >= call.earlier.ret[2]
      /\ \A category \in Members \ { call.rule.category } :
           ScoreOf(scores, category)
             = ScoreOf(call.earlier.category_scores, category)

\* A rule for Food that matches was added after a text was categorized
\* Food with a confidence below 1.0, another category scoring too.
C26_Witness ==
  /\ call.op = "add_custom_rule"
  /\ call.earlier.op = "categorize_playlist"
  /\ call.rule.weight > 0
  /\ call.rule.category = call.earlier.ret[1]
  /\ Len(call.earlier.category_scores) >= 2
  /\ call.earlier.ret[2] < 20
  /\ categorize_playlist(custom_rules, call.earlier.title,
                         call.earlier.description)[2] > call.earlier.ret[2]

(***************************************************************************)
(* C30 Batch categorization is idempotent: for the store as it is,         *)
(* categorize_playlists of what categorize_playlists returned is what it   *)
(* returned, and a 'category' or 'category_confidence' field of an input   *)
(* record is not reused: the result is that of the record without them.    *)
(***************************************************************************)
C30_Idempotent ==
  call.op = "categorize_playlists" =>
    /\ categorize_playlists(custom_rules, call.ret) = call.ret
    /\ \A i \in 1..Len(call.playlists) :
         /\ call.ret[i]["category"] = value[ResultFor(Raw(call.playlists[i]))[1]]
         /\ call.ret[i]["category_confidence"] = ResultFor(Raw(call.playlists[i]))[2]

\* A batch with a record categorized Food before, which is Other now.
C30_Witness ==
  /\ call.op = "categorize_playlists"
  /\ Len(call.playlists) = 2
  /\ \E i \in 1..2 :
       /\ "category" \in DOMAIN call.playlists[i]
       /\ call.playlists[i]["category"] = "Food"
       /\ call.ret[i]["category"] = "Other"
  /\ \E i \in 1..2 : call.ret[i]["category_confidence"] > 0

(***************************************************************************)
(* C25 Other means no match: whatever overrides update_playlist_category   *)
(* has stored, every playlist that /api/playlists reports as Other has     *)
(* confidence 0.0, no keyword of any rule occurring in its text, and       *)
(* every playlist with a confidence above 0.0 has another category.        *)
(***************************************************************************)
C25_OtherMeansNoMatch ==
  (response.route = "get_playlists" /\ response.status = 200) =>
    \A i \in 1..Len(response.user_playlists) :
      LET p == response.user_playlists[i]
      IN  p["category"] = "Other" =>
            /\ p["category_confidence"] = 0
            /\ \A r \in 1..Len(AllRules) :
                 TotalOccurrences(AllRules[r].keywords,
                                  Text(p["title"], p["description"])) = 0

(***************************************************************************)
(* C27 Rejected overrides change nothing: update_playlist_category adds a  *)
(* custom rule only when youtube_manager has been initialised and the      *)
(* body carries a category that is not empty; it answers 401 'Not          *)
(* authenticated' when youtube_manager is None and 400 'Category is        *)
(* required' when the category is missing or empty, and in both cases      *)
(* the custom rules are what they were.                                    *)
(***************************************************************************)
UpdateAnswered == response'.route = "update_playlist_category"

\* The category of a request body: None when the body has none, or when
\* there is no JSON body.
CategoryIn(data) ==
  IF data = NoneObject THEN None ELSE Get(data, "category", None)

AddsOnlyWhenAsked ==
  custom_rules' # custom_rules =>
    /\ youtube_manager # NoneObject
    /\ CategoryIn(response'.data) \notin { None, "" }

NotAuthenticatedAnswer ==
  youtube_manager = NoneObject =>
    /\ response'.status = 401
    /\ response'.error = "Not authenticated"
    /\ custom_rules' = custom_rules

C27_RejectedOverrides ==
  [][ UpdateAnswered =>
        /\ AddsOnlyWhenAsked
        /\ NotAuthenticatedAnswer
        /\ (youtube_manager # NoneObject
              /\ CategoryIn(response'.data) \in { None, "" }) =>
             /\ response'.status = 400
             /\ response'.error = "Category is required"
             /\ custom_rules' = custom_rules ]_vars

(***************************************************************************)
(* C28 Health reflects authentication: /api/health reports authenticated:  *)
(* true only if a login() call has succeeded for the youtube_manager of    *)
(* the moment; a failed login in get_playlists or refresh_authentication   *)
(* does not leave the server reporting true.                               *)
(***************************************************************************)
LoggedIn(manager) == manager # NoneObject /\ manager.playlist_manager # None

C28_HealthReflectsLogin ==
  (response.route = "health_check" /\ response.authenticated) =>
    LoggedIn(youtube_manager)

(***************************************************************************)
(* C23 Response consistency under concurrent overrides: in every           *)
(* /api/playlists response each playlist of 'user_playlists' is listed in  *)
(* 'category_summary' under the category it has in 'user_playlists', also  *)
(* when update_playlist_category requests are served between the           *)
(* request's categorize_playlists call and its get_category_summary call.  *)
(***************************************************************************)
ListedUnder(summary, category, id) ==
  \E k \in 1..Len(summary[category].playlists) :
    summary[category].playlists[k]["id"] = id

C23_ResponseConsistent ==
  (response.route = "get_playlists" /\ response.status = 200) =>
    \A i \in 1..Len(response.user_playlists) :
      ListedUnder(response.category_summary,
                  response.user_playlists[i]["category"],
                  response.user_playlists[i]["id"])

(***************************************************************************)
(* C29 Login guard: on a YouTubeManager, get_saved_playlists,              *)
(* get_playlist_videos and get_channel_info raise ValueError('Not logged   *)
(* in...') whenever no login() has returned True yet, that is, whenever    *)
(* playlist_manager is None: it is None at first and only a login() that   *)
(* returns True sets it.  Whenever it is set the authenticator's service   *)
(* is not None, and a login() that returns False leaves it as it was.      *)
(***************************************************************************)
ManagerReads == { "get_saved_playlists", "get_playlist_videos", "get_channel_info" }

GuardedReads ==
  (call.op \in ManagerReads /\ youtube_manager.playlist_manager = None) =>
    call.raises = "Not logged in. Call login() first."

ServiceWhenLoggedIn ==
  youtube_manager.playlist_manager # None => youtube_manager.service # None

SetBySuccessfulLogin ==
  /\ youtube_manager'.playlist_manager # youtube_manager.playlist_manager =>
       call'.op = "login" /\ call'.ret
  /\ (call'.op = "login" /\ ~call'.ret) =>
       youtube_manager'.playlist_manager = youtube_manager.playlist_manager
  /\ (call'.op = "login" /\ call'.ret) =>
       youtube_manager'.playlist_manager # None

C29_LoginGuard ==
  /\ [](GuardedReads /\ ServiceWhenLoggedIn)
  /\ [][SetBySuccessfulLogin]_vars

\* A read is refused although a login was tried (it loaded expired
\* credentials and failed).
C29_Witness ==
  /\ call.op = "get_playlist_videos"
  /\ call.raises = "Not logged in. Call login() first."
  /\ youtube_manager.credentials = Expired

(***************************************************************************)
(* C22 Termination: for every batch and every rule store, a running call   *)
(* of categorize_playlist, categorize_playlists, get_category_summary or   *)
(* suggest_category_improvements eventually returns, with nothing but its  *)
(* own passes taken: no call of another operation, no change of the store  *)
(* and no outside event is needed.                                         *)
(***************************************************************************)
C22_Termination == Running ~> (call.op \in StepOps /\ call.pc = "returned")

\* Every pass taken is a pass of the running call, and what the call
\* returns is what the operation returns for its arguments and the store.
StepsAgree ==
  (call.op \in StepOps /\ call.pc = "returned") =>
    call.ret =
      CASE call.op = "categorize_playlist" ->
             categorize_playlist(custom_rules, call.title, call.description)
        [] call.op = "categorize_playlists" ->
             categorize_playlists(custom_rules, call.playlists)
        [] call.op = "get_category_summary" ->
             get_category_summary(custom_rules, call.playlists)
        [] call.op = "suggest_category_improvements" ->
             suggest_category_improvements(custom_rules, call.playlists)

\* A summary of a full batch has returned under a store of MaxCustom rules.
C22_Witness ==
  /\ call.op = "get_category_summary"
  /\ call.pc = "returned"
  /\ Len(call.playlists) = MaxBatch
  /\ Len(custom_rules) = MaxCustom

====
